---- MODULE Spec2Model ----
(***************************************************************************)
(* CppBitUtilLib: the bit-granular stream writer/reader (BitBufferOut,     *)
(* BitBufferIn) and the canonical, length-limited Huffman coder            *)
(* (Huffman::HuffmanCode) built on top of it.                              *)
(*                                                                         *)
(* BitSpec is the bit-stream layer on its own: a writer receives write     *)
(* and flush calls, then a reader is opened over the emitted bytes.        *)
(* Spec is the Huffman coder: construction from a frequency table, then    *)
(* symbols written through a BitBufferOut, flushed and read back.          *)
(* CodeSpec is the HuffmanCode constructor alone, over larger tables and   *)
(* limits.                                                                 *)
(***************************************************************************)
EXTENDS Integers, Sequences, FiniteSets, TLC

\* ------------------------------------------------------------------ bounds
\* number of calls made on one BitBufferOut in BitSpec
MaxOps == 4
\* Spec: frequency tables hold the symbols 0..n-1 for an n in 1..NumSymbols
NumSymbols == 4
\* Spec: frequencies are 1..MaxFreq
MaxFreq == 2
\* Spec: length limits are 0 (none) and 1..MaxLimit
MaxLimit == 2
\* Spec: number of symbols written through one HuffmanCode
MaxMsg == 3
\* CodeSpec: frequency tables hold the symbols 0..n-1 for an n in 1..CodeSymbols
CodeSymbols == 5
\* CodeSpec: frequencies are 1..CodeFreq
CodeFreq == 3
\* CodeSpec: length limits are 0 (none) and 1..CodeLimit
CodeLimit == 3

\* ------------------------------------------------------ program constants
\* sizeof(BITBUFFER_T) * 8, BITBUFFER_T being unsigned char
CellBits == 8
\* the widest value write/read accept
MaxBits == 32
\* BitOrder
MSB == 0
LSB == 1
\* BitManip::UTF8_MAX_LEN
UTF8_MAX_LEN == 6
\* size_t arithmetic is modulo a power of two, of 16 bits at the least
SizeWrap == 2 ^ 16

\* The repository holds two definitions of BitBufferOut::flush; a build links
\* one of them.  0 stands for "no flush has run yet": which definition the
\* build holds is resolved at the first flush and kept from then on.
FlushDefs == {1, 2}

\* A std::uint32_t is held as two 16-bit halves, [hi, lo]: the model checker's
\* integers are narrower than 32 unsigned bits.
Half == 2 ^ 16

U32(h, l) == [hi |-> h, lo |-> l]

\* the calls write(value, bits) made: BigValue (0xA5A5A5A5) has bits set above
\* and below every width; 0 and MaxBits + 1 are the widths outside 1..MaxBits
BigValue == U32(42405, 42405)
\* the memory handed to writeData: 0xA5, 0x3C
DataCalls == {<<165, 60>>}
WriteCalls == {<<U32(0, 5), 3>>, <<U32(0, 3), 2>>, <<BigValue, 7>>, <<BigValue, MaxBits>>,
               <<U32(0, 5), 0>>, <<U32(0, 5), MaxBits + 1>>}

\* ------------------------------------------------- unsigned bit arithmetic
Min(a, b) == IF a < b THEN a ELSE b

Shl(x, n) == x * (2 ^ n)

Shr(x, n) == x \div (2 ^ n)

RECURSIVE AndBits(_, _)
AndBits(a, b) ==
    IF a = 0 \/ b = 0 THEN 0
    ELSE (IF a % 2 = 1 /\ b % 2 = 1 THEN 1 ELSE 0) + 2 * AndBits(a \div 2, b \div 2)

\* x & y for two 4-bit operands, tabulated once.
And4 == [x \in 0..15 |-> [y \in 0..15 |-> AndBits(x, y)]]

RECURSIVE BitAnd(_, _)
BitAnd(a, b) ==
    IF a = 0 \/ b = 0 THEN 0
    ELSE And4[a % 16][b % 16] + 16 * BitAnd(a \div 16, b \div 16)

RECURSIVE OrBits(_, _)
OrBits(a, b) ==
    IF a = 0 THEN b
    ELSE IF b = 0 THEN a
    ELSE (IF a % 2 = 1 \/ b % 2 = 1 THEN 1 ELSE 0) + 2 * OrBits(a \div 2, b \div 2)

\* x | y for two 4-bit operands, tabulated once.
Or4 == [x \in 0..15 |-> [y \in 0..15 |-> OrBits(x, y)]]

RECURSIVE BitOr(_, _)
BitOr(a, b) ==
    IF a = 0 THEN b
    ELSE IF b = 0 THEN a
    ELSE Or4[a % 16][b % 16] + 16 * BitOr(a \div 16, b \div 16)

\* conversion to BITBUFFER_T (unsigned char)
U8(x) == x % (2 ^ CellBits)

\* the low 16 bits of v >> s for a std::uint32_t v and 0 <= s < 32
Shr32(v, s) ==
    IF s >= 16 THEN v.hi \div (2 ^ (s - 16))
    ELSE (v.lo \div (2 ^ s)) + (v.hi % (2 ^ s)) * (2 ^ (16 - s))

\* v << n in 32 bits, for 0 <= n <= CellBits
Shl32(v, n) ==
    [hi |-> ((v.hi * (2 ^ n)) + ((v.lo * (2 ^ n)) \div Half)) % Half,
     lo |-> (v.lo * (2 ^ n)) % Half]

\* v | x in 32 bits, for x below 2^16
Or32(v, x) == [hi |-> v.hi, lo |-> BitOr(v.lo, x)]

\* BitManip::reverse8
reverse8(number) ==
    LET n1 == U8(BitOr(Shr(BitAnd(number, 240), 4), Shl(BitAnd(number, 15), 4)))
        n2 == U8(BitOr(Shr(BitAnd(n1, 204), 2), Shl(BitAnd(n1, 51), 2)))
        n3 == U8(BitOr(Shr(BitAnd(n2, 170), 1), Shl(BitAnd(n2, 85), 1)))
    IN n3

\* ------------------------------------------------------------------ state
VARIABLES
    order,      \* BitOrder of the writer and of the reader
    flushDef,   \* the definition of BitBufferOut::flush the build links (0: not yet resolved)
    out,        \* BitBufferOut: [building, index]
    stream,     \* the bytes emitted to the sink, later the reader's source
    inp,        \* BitBufferIn: [building, index, pos, fail]
    phase,      \* "writing", "closed" (writer destroyed), "reading"
    hist,       \* the writes of 1..MaxBits bits and the flushes made on the writer, in order
    rhist,      \* the calls made on the reader, in order
    last,       \* the most recent call with its outcome and the state it found
    pending,    \* the bits a writer owes the sink: accepted by write, in no emitted cell
    pc,          \* where the HuffmanCode is: in its constructor, ready, flushed, ...
    frequencies, \* constructor argument: symbol -> frequency
    limit,       \* constructor argument: the maximum code length, 0 for none
    heap,        \* the constructor's heap of HuffmanNode
    sortedSyms,  \* the constructor's (length, symbol) pairs
    population,  \* the constructor's length histogram
    symbolList,  \* the per-length symbol lists handed to initFromList
    encode,      \* HuffmanCode::encode: symbol -> <<code, length>>
    decode,      \* HuffmanCode::decode: per length, code -> symbol
    msg,         \* the symbols written through HuffmanCode::write, in order
    decoded      \* the outcomes of HuffmanCode::read, in order

bitVars == <<order, flushDef, out, stream, inp, phase, hist, rhist, last, pending>>

hufVars == <<pc, frequencies, limit, heap, sortedSyms, population, symbolList,
             encode, decode, msg, decoded>>

vars == <<bitVars, hufVars>>

\* ------------------------------------------------------------ BitBufferOut
\* BitBufferOut::push: the cell as emitted, which is also what `building` holds
\* afterwards (the reversal is done in place)
push(building, ord) ==
    IF ord = LSB
    THEN LET b1 == U8(BitOr(Shr(BitAnd(building, 240), 4), Shl(BitAnd(building, 15), 4)))
             b2 == U8(BitOr(Shr(BitAnd(b1, 204), 2), Shl(BitAnd(b1, 51), 2)))
             b3 == U8(BitOr(Shr(BitAnd(b2, 170), 1), Shl(BitAnd(b2, 85), 1)))
         IN b3
    ELSE building

\* writeLoop with the mask dropped: building |= value >> shift
RECURSIVE writeLoopNoMask(_, _, _, _)
writeLoopNoMask(w, ord, value, bits) ==
    IF bits = 0 THEN w
    ELSE LET bitsToAppend == Min(CellBits - w.index, bits)
             shift == bits - bitsToAppend
             shifted == U8(Shl(w.building, bitsToAppend))
             built == U8(BitOr(shifted, Shr32(value, shift)))
             idx == w.index + bitsToAppend
         IN IF idx = CellBits
            THEN LET cell == push(built, ord)
                 IN writeLoopNoMask([building |-> cell, index |-> 0,
                                     stream |-> Append(w.stream, cell), ret |-> w.ret + 1],
                                    ord, value, bits - bitsToAppend)
            ELSE writeLoopNoMask([building |-> built, index |-> idx,
                                  stream |-> w.stream, ret |-> w.ret],
                                 ord, value, bits - bitsToAppend)

\* the while (bits) loop of BitBufferOut::write; w is [building, index, stream, ret]
RECURSIVE writeLoop(_, _, _, _)
writeLoop(w, ord, value, bits) ==
    IF bits = 0 THEN w
    ELSE LET bitsToAppend == Min(CellBits - w.index, bits)
             shift == bits - bitsToAppend
             mask == Shl(1, bitsToAppend) - 1
             shifted == U8(Shl(w.building, bitsToAppend))
             built == U8(BitOr(shifted, BitAnd(Shr32(value, shift), mask)))
             idx == w.index + bitsToAppend
         IN IF idx = CellBits
            THEN LET cell == push(built, ord)
                 IN writeLoop([building |-> cell, index |-> 0,
                               stream |-> Append(w.stream, cell), ret |-> w.ret + 1],
                              ord, value, bits - bitsToAppend)
            ELSE writeLoop([building |-> built, index |-> idx,
                            stream |-> w.stream, ret |-> w.ret],
                           ord, value, bits - bitsToAppend)

\* write with the width check off by one: if (bits > 33)
writeLateCheck(w, ord, value, bits) ==
    IF bits > MaxBits + 1
    THEN [building |-> w.building, index |-> w.index, stream |-> w.stream,
          ret |-> 0, threw |-> TRUE]
    ELSE LET r == writeLoop([building |-> w.building, index |-> w.index,
                            stream |-> w.stream, ret |-> 0], ord, value, bits)
         IN [building |-> r.building, index |-> r.index, stream |-> r.stream,
             ret |-> r.ret, threw |-> FALSE]

\* BitBufferOut::write(value, bits): [building, index, stream, ret, threw]
write(w, ord, value, bits) ==
    IF bits > MaxBits
    THEN [building |-> w.building, index |-> w.index, stream |-> w.stream,
          ret |-> 0, threw |-> TRUE]
    ELSE LET r == writeLoop([building |-> w.building, index |-> w.index,
                            stream |-> w.stream, ret |-> 0], ord, value, bits)
         IN [building |-> r.building, index |-> r.index, stream |-> r.stream,
             ret |-> r.ret, threw |-> FALSE]

\* BitBufferOut::writeData(mem, bytes): write(*mem++, 8) for each byte of mem,
\* the returns added up; w is [building, index, stream, ret]
RECURSIVE writeData(_, _, _)
writeData(w, ord, mem) ==
    IF mem = <<>> THEN w
    ELSE LET r == write(w, ord, U32(0, mem[1]), CellBits)
         IN writeData([building |-> r.building, index |-> r.index, stream |-> r.stream,
                       ret |-> w.ret + r.ret],
                      ord, SubSeq(mem, 2, Len(mem)))

\* BitBufferOut::flush(fill), in the definition def: the first resets index
\* after push(), the second returns without touching it
flush(w, ord, fill, def) ==
    IF w.index = 0
    THEN [building |-> w.building, index |-> w.index, stream |-> w.stream, ret |-> 0]
    ELSE LET remaining == CellBits - w.index
             shifted == U8(Shl(w.building, remaining))
             filled == IF fill THEN U8(BitOr(shifted, Shl(1, remaining) - 1)) ELSE shifted
             cell == push(filled, ord)
         IN [building |-> cell,
             index |-> IF def = 1 THEN 0 ELSE w.index,
             stream |-> Append(w.stream, cell), ret |-> 1]

\* ------------------------------------------------------------- BitBufferIn
\* fetch without the reversal of an LSB-first cell
fetchNoReverse(r, ord, src) ==
    LET got == r.pos < Len(src)
    IN [building |-> IF got THEN src[r.pos + 1] ELSE r.building,
        index |-> r.index,
        pos |-> IF got THEN r.pos + 1 ELSE r.pos,
        fail |-> r.fail \/ ~got]

\* BitBufferIn::fetch: stream.read of one cell; at the end of the source no
\* character is stored and the stream fails, building keeps its value; the
\* reversal is applied either way
fetch(r, ord, src) ==
    LET got == r.pos < Len(src)
        raw == IF got THEN src[r.pos + 1] ELSE r.building
    IN [building |-> IF ord = LSB THEN reverse8(raw) ELSE raw,
        index |-> r.index,
        pos |-> IF got THEN r.pos + 1 ELSE r.pos,
        fail |-> r.fail \/ ~got]

\* the while (bits) loop of BitBufferIn::read; r is [building, index, pos, fail]
RECURSIVE readLoop(_, _, _, _, _)
\* the body of the loop from `remaining` on, f being the reader after the
\* fetch it may have needed
readCell(f, ord, src, bits, val) ==
    LET remaining == Min(CellBits - f.index, bits)
        shift == CellBits - f.index - remaining
        val1 == Shl32(val, remaining)
        mask == Shl(Shl(1, remaining) - 1, shift)
        val2 == Or32(val1, Shr(BitAnd(f.building, mask), shift))
    IN readLoop([f EXCEPT !.index = f.index + remaining], ord, src,
                bits - remaining, val2)

readLoop(r, ord, src, bits, val) ==
    IF bits = 0 THEN [rd |-> r, val |-> val]
    ELSE readCell(IF r.index = CellBits
                  THEN [fetch(r, ord, src) EXCEPT !.index = 0]
                  ELSE r,
                  ord, src, bits, val)

\* BitBufferIn::read(bits): [rd, val, threw]
read(r, ord, src, bits) ==
    IF bits > MaxBits
    THEN [rd |-> r, val |-> U32(0, 0), threw |-> TRUE]
    ELSE LET res == readLoop(r, ord, src, bits, U32(0, 0))
         IN [rd |-> res.rd, val |-> res.val, threw |-> FALSE]

\* ------------------------------------------------- what the calls were given
\* bit i of a std::uint32_t, bit 0 the least significant
BitAt(v, i) == IF i >= 16 THEN (v.hi \div (2 ^ (i - 16))) % 2 ELSE (v.lo \div (2 ^ i)) % 2

\* the low `bits` bits of v, the most significant of them first
BitsOf(v, bits) == [i \in 1..bits |-> BitAt(v, bits - i)]

\* v mod 2^bits
Low32(v, bits) ==
    [hi |-> IF bits >= 32 THEN v.hi ELSE IF bits > 16 THEN v.hi % (2 ^ (bits - 16)) ELSE 0,
     lo |-> IF bits >= 16 THEN v.lo ELSE v.lo % (2 ^ bits)]

\* the byte whose bits, most significant first, are the 8 bits b
RECURSIVE ByteOf(_)
ByteOf(b) == IF b = <<>> THEN 0 ELSE 2 * ByteOf(SubSeq(b, 1, Len(b) - 1)) + b[Len(b)]

\* the bits b cut into 8-bit cells; Len(b) is a multiple of 8
RECURSIVE Cells(_)
Cells(b) == IF b = <<>> THEN <<>>
            ELSE <<ByteOf(SubSeq(b, 1, 8))>> \o Cells(SubSeq(b, 9, Len(b)))

\* the bits of b that fill no whole cell
Partial(b) == SubSeq(b, 8 * (Len(b) \div 8) + 1, Len(b))

\* n copies of the bit x
Pad(x, n) == [i \in 1..n |-> x]

\* a byte with its 8 bits in the opposite order
Mirror(byte) == ByteOf([i \in 1..8 |-> (byte \div (2 ^ (i - 1))) % 2])

\* the bits of the bytes mem, each byte most significant bit first
RECURSIVE DataBits(_)
DataBits(mem) ==
    IF mem = <<>> THEN <<>>
    ELSE BitsOf(U32(0, mem[1]), CellBits) \o DataBits(SubSeq(mem, 2, Len(mem)))

NoCall == [obj |-> "none", op |-> "none", value |-> U32(0, 0), bits |-> 0, fill |-> FALSE,
           ret |-> 0, val |-> U32(0, 0), threw |-> FALSE,
           preBuilding |-> 0, preIndex |-> 0, preLen |-> 0, prePending |-> <<>>]

WriterRec == [building |-> out.building, index |-> out.index, stream |-> stream]

\* ---------------------------------------------------- the Huffman side idle
HufIdle ==
    /\ pc = "none"
    /\ frequencies = <<>>
    /\ limit = 0
    /\ heap = {}
    /\ sortedSyms = <<>>
    /\ population = <<>>
    /\ symbolList = <<>>
    /\ encode = <<>>
    /\ decode = <<>>
    /\ msg = <<>>
    /\ decoded = <<>>

\* a BitBufferOut as constructed: index{0}, building{0}; a BitBufferIn as
\* constructed: index{8}, building{0}
NewOut == [building |-> 0, index |-> 0]

NewIn == [building |-> 0, index |-> CellBits, pos |-> 0, fail |-> FALSE]

BitInit ==
    /\ order \in {MSB, LSB}
    /\ flushDef = 0
    /\ out = NewOut
    /\ stream = <<>>
    /\ inp = NewIn
    /\ phase = "writing"
    /\ hist = <<>>
    /\ rhist = <<>>
    /\ last = NoCall
    /\ pending = <<>>
    /\ HufIdle

\* bout.write(value, bits)
BWrite ==
    \E call \in WriteCalls :
        /\ phase = "writing"
        /\ Len(hist) < MaxOps
        /\ LET value == call[1]
               bits == call[2]
               r == write(WriterRec, order, value, bits)
           IN /\ out' = [building |-> r.building, index |-> r.index]
              /\ stream' = r.stream
              /\ hist' = IF bits >= 1 /\ bits <= MaxBits
                          THEN Append(hist, [op |-> "write", value |-> value, bits |-> bits,
                                             fill |-> FALSE, ret |-> r.ret])
                          ELSE hist
              /\ last' = [NoCall EXCEPT !.obj = "out", !.op = "write", !.value = value,
                                        !.bits = bits, !.ret = r.ret, !.threw = r.threw,
                                        !.preBuilding = out.building, !.preIndex = out.index,
                                        !.preLen = Len(stream), !.prePending = pending]
              /\ pending' = IF bits > MaxBits THEN pending
                            ELSE Partial(pending \o BitsOf(value, bits))
        /\ UNCHANGED <<order, flushDef, inp, phase, rhist, hufVars>>

\* bout.writeData(mem, bytes); hist holds the write of each byte, last the call
BWriteData ==
    \E mem \in DataCalls :
        /\ phase = "writing"
        /\ Len(hist) + Len(mem) <= MaxOps
        /\ LET start == [building |-> out.building, index |-> out.index,
                         stream |-> stream, ret |-> 0]
               r == writeData(start, order, mem)
           IN /\ out' = [building |-> r.building, index |-> r.index]
              /\ stream' = r.stream
              /\ last' = [NoCall EXCEPT !.obj = "out", !.op = "writeData",
                                        !.bits = CellBits * Len(mem), !.ret = r.ret,
                                        !.preBuilding = out.building, !.preIndex = out.index,
                                        !.preLen = Len(stream), !.prePending = pending]
              /\ hist' = hist \o
                     [k \in 1..Len(mem) |->
                         [op |-> "write", value |-> U32(0, mem[k]), bits |-> CellBits,
                          fill |-> FALSE,
                          ret |-> writeData(start, order, SubSeq(mem, 1, k)).ret
                                  - writeData(start, order, SubSeq(mem, 1, k - 1)).ret]]
        /\ pending' = Partial(pending \o DataBits(mem))
        /\ UNCHANGED <<order, flushDef, inp, phase, rhist, hufVars>>

\* bout.flush(fill)
BFlush ==
    \E fill \in BOOLEAN, def \in (IF flushDef = 0 THEN FlushDefs ELSE {flushDef}) :
        /\ phase = "writing"
        /\ Len(hist) < MaxOps
        /\ LET r == flush(WriterRec, order, fill, def)
           IN /\ out' = [building |-> r.building, index |-> r.index]
              /\ stream' = r.stream
              /\ hist' = Append(hist, [op |-> "flush", value |-> U32(0, 0), bits |-> 0,
                                       fill |-> fill, ret |-> r.ret])
              /\ last' = [NoCall EXCEPT !.obj = "out", !.op = "flush", !.fill = fill,
                                        !.ret = r.ret,
                                        !.preBuilding = out.building, !.preIndex = out.index,
                                        !.preLen = Len(stream), !.prePending = pending]
        /\ flushDef' = def
        /\ pending' = <<>>
        /\ UNCHANGED <<order, inp, phase, rhist, hufVars>>

\* ~BitBufferOut(): flush()
BDestroy ==
    \E def \in (IF flushDef = 0 THEN FlushDefs ELSE {flushDef}) :
        /\ phase = "writing"
        /\ Len(hist) < MaxOps
        /\ LET r == flush(WriterRec, order, FALSE, def)
           IN /\ out' = [building |-> r.building, index |-> r.index]
              /\ stream' = r.stream
              /\ hist' = Append(hist, [op |-> "destroy", value |-> U32(0, 0), bits |-> 0,
                                       fill |-> FALSE, ret |-> r.ret])
              /\ last' = [NoCall EXCEPT !.obj = "out", !.op = "destroy", !.ret = r.ret,
                                        !.preBuilding = out.building, !.preIndex = out.index,
                                        !.preLen = Len(stream), !.prePending = pending]
        /\ flushDef' = def
        /\ pending' = <<>>
        /\ phase' = "closed"
        /\ UNCHANGED <<order, inp, rhist, hufVars>>

\* the calls write(value, bits) that wrote something
Writes == SelectSeq(hist, LAMBDA c : c.op = "write")

\* BitBufferIn bin(stream, order), over the bytes emitted, once the writer has
\* been flushed or destroyed
BOpenReader ==
    /\ phase \in {"writing", "closed"}
    /\ hist # <<>>
    /\ hist[Len(hist)].op \in {"flush", "destroy"}
    /\ phase' = "reading"
    /\ inp' = NewIn
    /\ UNCHANGED <<order, flushDef, out, stream, hist, rhist, last, pending, hufVars>>

\* the widths read: those written, in order, and the widths outside 1..MaxBits
ReadWidths ==
    {0, MaxBits + 1} \cup
    (IF Len(rhist) < Len(Writes) THEN {Writes[Len(rhist) + 1].bits} ELSE {})

\* bin.read(bits); a read of a width outside 1..MaxBits is the reader's last call
BRead ==
    \E bits \in ReadWidths :
        /\ phase = "reading"
        /\ \A i \in 1..Len(rhist) : rhist[i].bits >= 1 /\ rhist[i].bits <= MaxBits
        /\ LET r == read(inp, order, stream, bits)
           IN /\ inp' = r.rd
              /\ rhist' = Append(rhist, [bits |-> bits, val |-> r.val, threw |-> r.threw])
              /\ last' = [NoCall EXCEPT !.obj = "in", !.op = "read", !.bits = bits,
                                        !.val = r.val, !.threw = r.threw,
                                        !.preBuilding = inp.building, !.preIndex = inp.index,
                                        !.preLen = inp.pos]
        /\ UNCHANGED <<order, flushDef, out, stream, phase, hist, pending, hufVars>>

BitNext == BWrite \/ BWriteData \/ BFlush \/ BDestroy \/ BOpenReader \/ BRead

BitSpec == BitInit /\ [][BitNext]_vars

\* ------------------------------------------------------ bit-stream claims
IsFlush(c) == c.op \in {"flush", "destroy"}

IsWrite(c) == c.op = "write"

\* the calls so far are writes of 1..MaxBits bits and then one flush, the last call
WritesThenFlush ==
    /\ Len(hist) >= 2
    /\ IsFlush(hist[Len(hist)])
    /\ \A i \in 1..(Len(hist) - 1) : IsWrite(hist[i])

\* the bits of the first n calls, all of them writes, in write order
RECURSIVE WrittenBits(_)
WrittenBits(n) ==
    IF n = 0 THEN <<>> ELSE WrittenBits(n - 1) \o BitsOf(hist[n].value, hist[n].bits)

\* the number of bits needed to fill the last cell of n bits
ToBoundary(n) == (CellBits - (n % CellBits)) % CellBits

\* C6: on an MSB-first writer, writes of 1..32 bits followed by flush(false)
\* emit exactly the written bits, each value's low bits most significant
\* first, cut into 8-bit cells and zero-padded to a byte boundary.
C6_BitPacking ==
    (order = MSB /\ WritesThenFlush /\ ~hist[Len(hist)].fill)
        => LET b == WrittenBits(Len(hist) - 1)
           IN stream = Cells(b \o Pad(0, ToBoundary(Len(b))))

\* write(0b101, 3), write(0b11, 2), flush(false) has emitted the one byte 0xB8
C6_Witness ==
    /\ order = MSB
    /\ Len(hist) = 3
    /\ hist[1].op = "write" /\ hist[1].value = U32(0, 5) /\ hist[1].bits = 3
    /\ hist[2].op = "write" /\ hist[2].value = U32(0, 3) /\ hist[2].bits = 2
    /\ hist[3].op = "flush" /\ ~hist[3].fill
    /\ stream = <<184>>

\* C7: in either bit order, after writes of 1..32 bits and a final flush, the
\* i-th read(bits_i) of a reader over the emitted bytes returns
\* value_i mod 2^bits_i.
C7_RoundTrip ==
    (phase = "reading" /\ WritesThenFlush)
        => \A i \in 1..Len(rhist) :
               (rhist[i].bits >= 1 /\ rhist[i].bits <= MaxBits)
                   => /\ ~rhist[i].threw
                      /\ rhist[i].bits = hist[i].bits
                      /\ rhist[i].val = Low32(hist[i].value, hist[i].bits)

\* an LSB-first reader has read back two values that straddle byte boundaries
C7_Witness ==
    /\ phase = "reading"
    /\ order = LSB
    /\ WritesThenFlush
    /\ Len(hist) = 3
    /\ hist[1].bits = 3 /\ hist[2].bits = MaxBits
    /\ hist[2].value = BigValue
    /\ Len(rhist) = 2
    /\ rhist[2].val = BigValue

\* the last call left the accumulator, the fill index and the sink (for the
\* reader: the source position) as it found them
LastLeftStateAlone ==
    IF last.obj = "out"
    THEN /\ out.building = last.preBuilding
         /\ out.index = last.preIndex
         /\ Len(stream) = last.preLen
    ELSE /\ inp.building = last.preBuilding
         /\ inp.index = last.preIndex
         /\ inp.pos = last.preLen

LastIsWidthCall == last.op \in {"write", "read"}

\* C8 as stated: write and read fail with the bit-width error for every width
\* outside 1..32, that is for 0 and for more than 32, leaving the state alone.
C8_Original ==
    (LastIsWidthCall /\ (last.bits = 0 \/ last.bits > MaxBits))
        => (last.threw /\ LastLeftStateAlone)

\* C8 amended: write and read fail with the bit-width error exactly for the
\* widths above 32, leaving the state alone; a width of 0 raises no error: the
\* call returns 0 and leaves the state alone as well.
C8_WidthCheck ==
    LastIsWidthCall
        => /\ last.threw <=> last.bits > MaxBits
           /\ (last.bits > MaxBits \/ last.bits = 0)
                  => (LastLeftStateAlone /\ last.ret = 0 /\ last.val = U32(0, 0))

\* a write of 33 bits was refused while bits were pending in the accumulator
C8_Witness ==
    /\ last.op = "write"
    /\ last.bits = MaxBits + 1
    /\ last.threw
    /\ last.preIndex = 3
    /\ out.index = 3

\* the writes so far followed by one or more flushes (the destructor's included)
WritesThenFlushes ==
    /\ Len(hist) >= 2
    /\ IsFlush(hist[Len(hist)])
    /\ \E k \in 1..(Len(hist) - 1) :
           /\ \A i \in 1..k : IsWrite(hist[i])
           /\ \A i \in (k + 1)..Len(hist) : IsFlush(hist[i])

NumWrittenBits ==
    LET RECURSIVE Sum(_)
        Sum(n) == IF n = 0 THEN 0
                  ELSE Sum(n - 1) + (IF IsWrite(hist[n]) THEN hist[n].bits ELSE 0)
    IN Sum(Len(hist))

\* C9: a flush on a writer with zero pending bits emits nothing and returns
\* 0; a flush right after a flush (the destructor's included) emits no
\* further byte; n written bits followed by flushes emit ceil(n/8) bytes.
C9_FlushOnce ==
    /\ (last.obj = "out" /\ IsFlush(last) /\ last.prePending = <<>>)
           => (last.ret = 0 /\ Len(stream) = last.preLen)
    /\ \A i \in 2..Len(hist) :
           (IsFlush(hist[i]) /\ IsFlush(hist[i - 1])) => hist[i].ret = 0
    /\ WritesThenFlushes
           => Len(stream) = (NumWrittenBits + CellBits - 1) \div CellBits

\* C10: a flush(fill) on a writer with k pending bits, 1 <= k <= 7, emits
\* exactly one byte: the pending bits in write order on top, 8-k bits of fill
\* below (before the LSB-order reversal), and returns 1.
C10_FlushPadding ==
    (last.obj = "out" /\ IsFlush(last) /\ Len(last.prePending) >= 1)
        => LET cell == ByteOf(last.prePending \o
                              Pad(IF last.fill THEN 1 ELSE 0,
                                  CellBits - Len(last.prePending)))
           IN /\ last.ret = 1
              /\ Len(stream) = last.preLen + 1
              /\ stream[Len(stream)] = IF order = LSB THEN Mirror(cell) ELSE cell

\* the writer of bit order ord after the first n calls of hist, under the
\* flush definition def: [building, index, stream]
RECURSIVE Replayed(_, _, _)
Replayed(ord, def, n) ==
    IF n = 0 THEN [building |-> 0, index |-> 0, stream |-> <<>>]
    ELSE LET c == hist[n]
             r == IF IsWrite(c)
                  THEN write(Replayed(ord, def, n - 1), ord, c.value, c.bits)
                  ELSE flush(Replayed(ord, def, n - 1), ord, c.fill, def)
         IN [building |-> r.building, index |-> r.index, stream |-> r.stream]

\* the bytes a writer of the other bit order emits for the calls made so far
OtherOrderStream == Replayed(1 - order, IF flushDef = 0 THEN 1 ELSE flushDef, Len(hist)).stream

\* C11: the bytes emitted by an LSB-first writer are, byte for byte, the
\* 8-bit reversals of the bytes an MSB-first writer emits for the same write
\* and flush calls.
C11_OrderEquivalence ==
    /\ Len(stream) = Len(OtherOrderStream)
    /\ \A i \in 1..Len(stream) : stream[i] = Mirror(OtherOrderStream[i])

\* the returns of the last n writes recorded in hist, added up
RECURSIVE SumOfReturns(_)
SumOfReturns(n) ==
    IF n = 0 THEN 0 ELSE hist[Len(hist) - n + 1].ret + SumOfReturns(n - 1)

\* C12: a write(value, bits) on a writer holding p pending bits returns the
\* number of whole cells it emitted, floor((p + bits) / 8), and leaves
\* (p + bits) mod 8 bits pending; writeData returns the sum of the returns
\* of the writes of its bytes.
C12_WriteReturn ==
    /\ (last.obj = "out" /\ last.op = "write" /\ ~last.threw) =>
           /\ last.ret = Len(stream) - last.preLen
           /\ last.ret = (Len(last.prePending) + last.bits) \div CellBits
           /\ out.index = (Len(last.prePending) + last.bits) % CellBits
           /\ Len(pending) = (Len(last.prePending) + last.bits) % CellBits
    /\ (last.obj = "out" /\ last.op = "writeData") =>
           /\ last.ret = SumOfReturns(last.bits \div CellBits)
           /\ last.ret = Len(stream) - last.preLen

\* ============================================================ HuffmanCode
\* HuffmanNode(symbol, frequency) and HuffmanNode(left, right); kids is <<>>
\* for a leaf (children.first == nullptr) and <<left, right>> otherwise
Leaf(symbol, frequency) == [symbol |-> symbol, frequency |-> frequency, kids |-> <<>>]

Internal(left, right) ==
    [symbol |-> -1, frequency |-> left.frequency + right.frequency, kids |-> <<left, right>>]

\* operator< with the frequencies compared the other way round
LessByHigherFrequency(a, b) ==
    IF a.frequency # b.frequency THEN a.frequency < b.frequency
    ELSE a.symbol > b.symbol

\* HuffmanNode::operator<
Less(a, b) ==
    IF a.frequency # b.frequency THEN a.frequency > b.frequency
    ELSE a.symbol > b.symbol

\* what std::pop_heap may move to the back: an element no other is above.
\* Among equivalent elements (two internal nodes of one frequency) the layout
\* of the heap decides, which the model leaves open.
HeapTop(h) == {n \in h : \A m \in h : ~Less(n, m)}

\* the breadth-first loop over the tree: queue holds <<node, node.length>>,
\* leaves is the set of <<length, symbol>> pushed to sortedSyms
RECURSIVE bfs(_, _)
bfs(queue, leaves) ==
    IF queue = <<>> THEN leaves
    ELSE LET node == queue[1][1]
             length == queue[1][2]
             rest == SubSeq(queue, 2, Len(queue))
         IN IF node.kids = <<>>
            THEN bfs(rest, leaves \cup {<<length, node.symbol>>})
            ELSE bfs(rest \o <<<<node.kids[1], length + 1>>, <<node.kids[2], length + 1>>>>,
                     leaves)

\* std::pair's operator<, as std::sort uses it
PairLess(p, q) == p[1] < q[1] \/ (p[1] = q[1] /\ p[2] < q[2])

\* std::sort(sortedSyms.begin(), sortedSyms.end())
RECURSIVE sort(_)
sort(pairs) ==
    IF pairs = {} THEN <<>>
    ELSE LET first == CHOOSE p \in pairs : \A q \in pairs \ {p} : PairLess(p, q)
         IN <<first>> \o sort(pairs \ {first})

\* the population vector the breadth-first loop leaves: one entry per length
\* up to the deepest leaf, counting the leaves of that length
histogram(leaves) ==
    LET deepest == CHOOSE d \in {p[1] : p \in leaves} : \A p \in leaves : p[1] <= d
    IN [i \in 1..deepest |-> Cardinality({p \in leaves : p[1] = i})]

\* limitStep that drops the last entry of population whatever it counts and
\* never throws
limitStepTruncate(pop) ==
    [population |-> SubSeq(pop, 1, Len(pop) - 1), thrown |-> FALSE]

\* limitStep that gives up one entry early: if (population.size() <= 3)
limitStepThrowsEarly(pop) ==
    LET size == Len(pop)
    IN IF pop[size] = 0
       THEN [population |-> SubSeq(pop, 1, size - 1), thrown |-> FALSE]
       ELSE IF size <= 3
       THEN [population |-> pop, thrown |-> TRUE]
       ELSE LET below == {k \in 0..(size - 3) : pop[k + 1] # 0}
            IN IF below = {}
               THEN [population |-> pop, thrown |-> TRUE]
               ELSE LET key == CHOOSE k \in below : \A j \in below : j <= k
                        p1 == [pop EXCEPT ![size] = @ - 2]
                        p2 == [p1 EXCEPT ![size - 1] = @ + 1]
                        p3 == [p2 EXCEPT ![key + 2] = @ + 2]
                        p4 == [p3 EXCEPT ![key + 1] = @ - 1]
                    IN [population |-> p4, thrown |-> FALSE]

\* limitStep without population[population.size() - 2]++: the sibling of the
\* leaf that moved up is not turned into a leaf one level higher
limitStepNoPromote(pop) ==
    LET size == Len(pop)
    IN IF pop[size] = 0
       THEN [population |-> SubSeq(pop, 1, size - 1), thrown |-> FALSE]
       ELSE IF size < 3
       THEN [population |-> pop, thrown |-> TRUE]
       ELSE LET below == {k \in 0..(size - 3) : pop[k + 1] # 0}
            IN IF below = {}
               THEN [population |-> pop, thrown |-> TRUE]
               ELSE LET key == CHOOSE k \in below : \A j \in below : j <= k
                        p1 == [pop EXCEPT ![size] = @ - 2]
                        p3 == [p1 EXCEPT ![key + 2] = @ + 2]
                        p4 == [p3 EXCEPT ![key + 1] = @ - 1]
                    IN [population |-> p4, thrown |-> FALSE]

\* one pass of the while (population.size() > limit) loop; "thrown" is the
\* HuffmanException("Limit too small")
limitStep(pop) ==
    LET size == Len(pop)
    IN IF pop[size] = 0
       THEN [population |-> SubSeq(pop, 1, size - 1), thrown |-> FALSE]
       ELSE IF size < 3
       THEN [population |-> pop, thrown |-> TRUE]
       ELSE LET \* key is zero-based in the code: population[key] is pop[key + 1]
                below == {k \in 0..(size - 3) : pop[k + 1] # 0}
            IN IF below = {}
               THEN [population |-> pop, thrown |-> TRUE]
               ELSE LET key == CHOOSE k \in below : \A j \in below : j <= k
                        p1 == [pop EXCEPT ![size] = @ - 2]
                        p2 == [p1 EXCEPT ![size - 1] = @ + 1]
                        p3 == [p2 EXCEPT ![key + 2] = @ + 2]
                        p4 == [p3 EXCEPT ![key + 1] = @ - 1]
                    IN [population |-> p4, thrown |-> FALSE]

\* the loop handing each sorted symbol the next length the histogram still
\* has room at; "oob" is a read of population past its end
RECURSIVE assign(_, _, _, _)
assign(syms, length, pop, list) ==
    IF syms = <<>> THEN [symbolList |-> list, oob |-> FALSE]
    ELSE LET free == {l \in length..Len(pop) : pop[l] # 0}
         IN IF free = {}
            THEN [symbolList |-> list, oob |-> TRUE]
            ELSE LET len == CHOOSE l \in free : \A k \in free : l <= k
                     grown == list \o [i \in 1..(len - Len(list)) |-> <<>>]
                 IN assign(SubSeq(syms, 2, Len(syms)), len,
                           [pop EXCEPT ![len] = @ - 1],
                           [grown EXCEPT ![len] = Append(@, syms[1][2])])

\* shiftCode with the shift left out
shiftCodeNone(code) == code

\* code <<= 1 at the end of each pass over a length
shiftCode(code) == 2 * code

\* HuffmanCode::initFromList from list index i on (i is one-based: length = i);
\* tables is [encode, decode]
RECURSIVE initLoop(_, _, _, _)
initLoop(list, i, code, tables) ==
    IF i > Len(list) THEN tables
    ELSE LET symbols == list[i]
             grown == IF Len(symbols) > 0
                      THEN tables.decode \o [k \in 1..(i - Len(tables.decode)) |-> <<>>]
                      ELSE tables.decode
             enc == [s \in DOMAIN tables.encode \cup {symbols[j] : j \in 1..Len(symbols)} |->
                        IF \E j \in 1..Len(symbols) : symbols[j] = s
                        THEN LET j == CHOOSE k \in 1..Len(symbols) :
                                          /\ symbols[k] = s
                                          /\ \A m \in (k + 1)..Len(symbols) : symbols[m] # s
                             IN <<code + j - 1, i>>
                        ELSE tables.encode[s]]
             dec == IF Len(symbols) > 0
                    THEN [grown EXCEPT ![i] =
                             [c \in code..(code + Len(symbols) - 1) |-> symbols[c - code + 1]]]
                    ELSE grown
         IN initLoop(list, i + 1, shiftCode(code + Len(symbols)),
                     [encode |-> enc, decode |-> dec])

\* initFromList with int code = 1
initFromListFromOne(list) == initLoop(list, 1, 1, [encode |-> <<>>, decode |-> <<>>])

\* HuffmanCode::initFromList
initFromList(list) == initLoop(list, 1, 0, [encode |-> <<>>, decode |-> <<>>])

\* HuffmanCode::write(symbol, code, length): the encode table's entry
lookupSymbol(enc, symbol) ==
    IF symbol \in DOMAIN enc
    THEN [found |-> TRUE, code |-> enc[symbol][1], length |-> enc[symbol][2]]
    ELSE [found |-> FALSE, code |-> 0, length |-> 0]

\* HuffmanCode::write(symbol, buffer): [found, building, index, stream]
HuffmanCode_write(enc, symbol, w, ord) ==
    LET e == lookupSymbol(enc, symbol)
    IN IF ~e.found
       THEN [found |-> FALSE, building |-> w.building, index |-> w.index, stream |-> w.stream]
       ELSE LET r == write(w, ord, U32(0, e.code), e.length)
            IN [found |-> TRUE, building |-> r.building, index |-> r.index,
                stream |-> r.stream]

\* HuffmanCode::read(code, length, symbol) that looks the code up with the
\* map's operator[], which yields 0 for a code the map does not hold
lookupCodeByIndex(dec, code, length, symbol) ==
    IF length > Len(dec) \/ length = 0
    THEN [found |-> FALSE, symbol |-> symbol]
    ELSE [found |-> TRUE,
          symbol |-> IF code \in DOMAIN dec[length] THEN dec[length][code] ELSE 0]

\* HuffmanCode::read(code, length, symbol): [found, symbol]
lookupCode(dec, code, length, symbol) ==
    IF length > Len(dec) \/ length = 0
    THEN [found |-> FALSE, symbol |-> symbol]
    ELSE IF code \in DOMAIN dec[length]
    THEN [found |-> TRUE, symbol |-> dec[length][code]]
    ELSE [found |-> FALSE, symbol |-> symbol]

\* the for loop of HuffmanCode::read(buffer, output): [found, output, rd]
RECURSIVE decodeLoop(_, _, _, _, _, _, _)
\* the body of the loop once buffer.read(1) has returned `bit`
decodeBit(dec, bit, ord, src, length, code, output) ==
    LET code1 == 2 * code + bit.val.lo
        hit == lookupCode(dec, code1, length, output)
    IN IF hit.found
       THEN [found |-> TRUE, output |-> hit.symbol, rd |-> bit.rd]
       ELSE decodeLoop(dec, bit.rd, ord, src, length + 1, code1, output)

decodeLoop(dec, r, ord, src, length, code, output) ==
    IF length > Len(dec)
    THEN [found |-> FALSE, output |-> output, rd |-> r]
    ELSE decodeBit(dec, read(r, ord, src, 1), ord, src, length, code, output)

\* HuffmanCode::read that finds the code but does not store the symbol
HuffmanCode_readKeepsOutput(dec, r, ord, src, output) ==
    [decodeLoop(dec, r, ord, src, 1, 0, output) EXCEPT !.output = output]

\* HuffmanCode::read(buffer, output)
HuffmanCode_read(dec, r, ord, src, output) == decodeLoop(dec, r, ord, src, 1, 0, output)

\* --------------------------------------------------------- the Huffman run
\* the frequency tables of up to n symbols 0..n-1, each with a frequency in 1..f
Tables(n, f) == UNION {[0..(k - 1) -> 1..f] : k \in 1..n}

\* a constructor call HuffmanCode(frequencies, limit) about to start, with
\* the table and the limit taken from the given sets
Start(tables, limits) ==
    /\ pc = "new"
    /\ frequencies \in tables
    /\ limit \in limits
    /\ heap = {}
    /\ sortedSyms = <<>>
    /\ population = <<>>
    /\ symbolList = <<>>
    /\ encode = <<>>
    /\ decode = <<>>
    /\ msg = <<>>
    /\ decoded = <<>>
    /\ order = MSB
    /\ flushDef = 0
    /\ out = NewOut
    /\ stream = <<>>
    /\ inp = NewIn
    /\ phase = "idle"
    /\ hist = <<>>
    /\ rhist = <<>>
    /\ last = NoCall
    /\ pending = <<>>

\* the table of the round-trip test in utf8.cpp: freqs[0] = 20, freqs[1] = 5,
\* freqs[2] = 12, freqs[3] = 1, freqs[4] = 8
TestTable == (0 :> 20) @@ (1 :> 5) @@ (2 :> 12) @@ (3 :> 1) @@ (4 :> 8)

\* the symbol lists handed to HuffmanCode(symbolList): symbolList[x] holds the
\* symbols of code length x + 1.  One symbol of length 1; two symbols of
\* length 2; symbols of lengths 1 and 2; no symbol at all.
Lists == {<<<<0>>>>, <<<<>>, <<1, 0>>>>, <<<<0>>, <<1>>>>, <<>>}

\* the bytes of a source a BitBufferIn is opened over without a writer
Sources == {<<203, 18>>, <<255>>}

\* the state before HuffmanCode(symbolList) runs on one of the lists
ListStart(lists) ==
    /\ pc = "list"
    /\ frequencies = <<>>
    /\ limit = 0
    /\ heap = {}
    /\ sortedSyms = <<>>
    /\ population = <<>>
    /\ symbolList \in lists
    /\ encode = <<>>
    /\ decode = <<>>
    /\ msg = <<>>
    /\ decoded = <<>>
    /\ order = MSB
    /\ flushDef = 0
    /\ out = NewOut
    /\ stream = <<>>
    /\ inp = NewIn
    /\ phase = "idle"
    /\ hist = <<>>
    /\ rhist = <<>>
    /\ last = NoCall
    /\ pending = <<>>

Init ==
    \/ Start(Tables(NumSymbols, MaxFreq) \cup {TestTable}, 0..MaxLimit)
    \/ ListStart(Lists)

\* the constructor up to std::make_heap
MakeHeap ==
    /\ pc = "new"
    /\ heap' = {Leaf(s, frequencies[s]) : s \in DOMAIN frequencies}
    /\ pc' = "merge"
    /\ UNCHANGED <<frequencies, limit, sortedSyms, population, symbolList, encode, decode,
                   msg, decoded, bitVars>>

\* one pass of while (heap.size() > 1): the first node popped is the right
\* child, the second the left
Merge ==
    /\ pc = "merge"
    /\ Cardinality(heap) > 1
    /\ \E right \in HeapTop(heap) :
           \E left \in HeapTop(heap \ {right}) :
               heap' = (heap \ {right, left}) \cup {Internal(left, right)}
    /\ UNCHANGED <<pc, frequencies, limit, sortedSyms, population, symbolList, encode,
                   decode, msg, decoded, bitVars>>

\* the breadth-first traversal, root.clean() and the sort.  A root that is a
\* leaf has length 0: population[node.length - 1]++ then writes outside the
\* empty vector, from where nothing about the run is defined ("oob").
Traverse ==
    /\ pc = "merge"
    /\ Cardinality(heap) = 1
    /\ LET root == CHOOSE n \in heap : TRUE
       IN IF root.kids = <<>>
          THEN /\ pc' = "oob"
               /\ UNCHANGED <<heap, sortedSyms, population>>
          ELSE LET leaves == bfs(<<<<root, 0>>>>, {})
               IN /\ sortedSyms' = sort(leaves)
                  /\ population' = histogram(leaves)
                  /\ heap' = {}
                  /\ pc' = "limit"
    /\ UNCHANGED <<frequencies, limit, symbolList, encode, decode, msg, decoded, bitVars>>

\* LimitPending with the comparison off by one: population.size() > limit + 1
LimitPendingOffByOne == limit > 0 /\ Len(population) > limit + 1

\* the guard of the limiting loop: if (limit > 0) while (population.size() > limit)
LimitPending == limit > 0 /\ Len(population) > limit

\* one pass of while (population.size() > limit)
LimitStep ==
    /\ pc = "limit"
    /\ LimitPending
    /\ LET r == limitStep(population)
       IN /\ population' = r.population
          /\ pc' = IF r.thrown THEN "thrown" ELSE pc
    /\ UNCHANGED <<frequencies, limit, heap, sortedSyms, symbolList, encode, decode,
                   msg, decoded, bitVars>>

\* the rest of the constructor: symbolList from sortedSyms and population,
\* then initFromList
AssignCodes ==
    /\ pc = "limit"
    /\ ~LimitPending
    /\ LET a == assign(sortedSyms, 1, population, <<>>)
           tables == initFromList(a.symbolList)
       IN IF a.oob
          THEN /\ pc' = "oob"
               /\ UNCHANGED <<symbolList, encode, decode>>
          ELSE /\ pc' = "ready"
               /\ symbolList' = a.symbolList
               /\ encode' = tables.encode
               /\ decode' = tables.decode
    /\ UNCHANGED <<frequencies, limit, heap, sortedSyms, population, msg, decoded, bitVars>>

\* HuffmanCode(symbolList): initFromList on the caller's list
FromList ==
    /\ pc = "list"
    /\ LET tables == initFromList(symbolList)
       IN /\ encode' = tables.encode
          /\ decode' = tables.decode
    /\ pc' = "ready"
    /\ UNCHANGED <<frequencies, limit, heap, sortedSyms, population, symbolList, msg,
                   decoded, bitVars>>

\* BitBufferIn bin(stream, order) over a stream that holds the bytes of one of
\* the sources, with no writer
OpenSource ==
    /\ pc = "ready"
    /\ pc' = "decoding"
    /\ order' \in {MSB, LSB}
    /\ stream' \in Sources
    /\ inp' = NewIn
    /\ frequencies' = <<>>
    /\ limit' = 0
    /\ sortedSyms' = <<>>
    /\ population' = <<>>
    /\ symbolList' = <<>>
    /\ UNCHANGED <<heap, encode, decode, msg, decoded, flushDef, out, phase, hist,
                   rhist, last, pending>>

\* BitBufferOut bout(stream, order) and BitBufferIn bin(stream, order) over one
\* stringstream; the constructor's arguments and locals are gone by now
OpenBuffers ==
    /\ pc = "ready"
    /\ pc' = "writing"
    /\ order' \in {MSB, LSB}
    /\ out' = NewOut
    /\ inp' = NewIn
    /\ frequencies' = <<>>
    /\ limit' = 0
    /\ sortedSyms' = <<>>
    /\ population' = <<>>
    /\ symbolList' = <<>>
    /\ UNCHANGED <<heap, encode, decode, msg, decoded, flushDef, stream, phase, hist,
                   rhist, last, pending>>

\* code.write(symbol, bout); the symbol NumSymbols is in no table of
\* Tables(NumSymbols, MaxFreq)
HuffWrite ==
    \E symbol \in 0..NumSymbols :
        /\ pc = "writing"
        /\ Len(msg) < MaxMsg
        /\ LET r == HuffmanCode_write(encode, symbol, WriterRec, order)
           IN /\ out' = [building |-> r.building, index |-> r.index]
              /\ stream' = r.stream
              /\ msg' = IF r.found THEN Append(msg, symbol) ELSE msg
        /\ UNCHANGED <<pc, frequencies, limit, heap, sortedSyms, population, symbolList,
                       encode, decode, decoded, order, flushDef, inp, phase, hist, rhist,
                       last, pending>>

\* bout.flush().  Both definitions of flush emit the same cell here, the first
\* flush of this writer; they differ in the index they leave behind.  The
\* writer is never used again in this run, so its fields leave the state
\* (and the definition stays unresolved) instead of doubling it.
HuffFlush ==
    \E def \in FlushDefs :
        /\ pc = "writing"
        /\ stream' = flush(WriterRec, order, FALSE, def).stream
        /\ out' = NewOut
        /\ pc' = "flushed"
        /\ UNCHANGED <<frequencies, limit, heap, sortedSyms, population, symbolList,
                       encode, decode, msg, decoded, order, flushDef, inp, phase, hist,
                       rhist, last, pending>>

\* the caller's variable handed to read as `output`
Output == IF decoded = <<>> THEN -1 ELSE decoded[Len(decoded)].output

\* the number of bits a reader has handed out, as long as it has not failed
BitPos(r) == IF r.pos = 0 THEN 0 ELSE CellBits * (r.pos - 1) + r.index

\* what one code.read(bin, sym) that returned r did: the value it returned,
\* the caller's variable afterwards, the reader's position before it, the
\* bits it consumed and whether the reader ran out of bytes
ReadOutcome(r, before) ==
    [found |-> r.found, output |-> r.output, at |-> BitPos(before),
     bits |-> BitPos(r.rd) - BitPos(before), fail |-> r.rd.fail]

\* code.read(bin, sym): as many times as symbols were written on a stream
\* that was written, up to MaxMsg times on a source
HuffRead ==
    /\ \/ pc = "flushed" /\ Len(decoded) < Len(msg)
       \/ pc = "decoding" /\ Len(decoded) < MaxMsg
    /\ inp' = HuffmanCode_read(decode, inp, order, stream, Output).rd
    /\ decoded' = Append(decoded,
                         ReadOutcome(HuffmanCode_read(decode, inp, order, stream, Output),
                                     inp))
    /\ UNCHANGED <<pc, frequencies, limit, heap, sortedSyms, population, symbolList,
                   encode, decode, msg, order, flushDef, out, stream, phase, hist, rhist,
                   last, pending>>

Next ==
    \/ MakeHeap
    \/ Merge
    \/ Traverse
    \/ LimitStep
    \/ AssignCodes
    \/ FromList
    \/ OpenSource
    \/ OpenBuffers
    \/ HuffWrite
    \/ HuffFlush
    \/ HuffRead

Spec == Init /\ [][Next]_vars

\* --------------------------------------------------- the constructor alone
\* a table of six symbols with no two partial sums equal: its tree holds symbols
\* 0, 1 and 2 at depth 2, symbol 3 at depth 3 and symbols 4 and 5 at depth 4
SkewTable == (0 :> 4) @@ (1 :> 6) @@ (2 :> 7) @@ (3 :> 3) @@ (4 :> 1) @@ (5 :> 1)

CodeInit == Start(Tables(CodeSymbols, CodeFreq) \cup {SkewTable}, 0..CodeLimit)

CodeNext ==
    \/ MakeHeap
    \/ Merge
    \/ Traverse
    \/ LimitStep
    \/ AssignCodes

CodeSpec == CodeInit /\ [][CodeNext]_vars

\* ------------------------------------------------------ the Huffman claims
\* the code and the length the encode table holds for a symbol
CodeOf(s) == encode[s][1]

LengthOf(s) == encode[s][2]

Built == pc \in {"ready", "writing", "flushed"}

\* the tree the constructor built was deeper than the limit, so the limiting
\* loop had lengths to shorten
WasLimited == limit > 0 /\ \E i \in 1..Len(sortedSyms) : sortedSyms[i][1] > limit

\* C1: Huffman round-trip.  After the symbols of a message were written with
\* HuffmanCode::write and the writer flushed, every HuffmanCode::read on a
\* reader over the emitted bytes returns true and yields the symbol written at
\* that position, for each table of two or more symbols, each limit under
\* which the constructor succeeds and both bit orders.
C1_RoundTrip ==
    pc = "flushed" =>
        \A i \in 1..Len(decoded) : decoded[i].found /\ decoded[i].output = msg[i]

C1_Witness ==
    /\ pc = "flushed"
    /\ order = LSB
    /\ Len(msg) = MaxMsg
    /\ Len(decoded) = Len(msg)
    /\ Len(stream) >= 2
    /\ \E i, j \in 1..Len(msg) : msg[i] # msg[j]
    /\ C1_RoundTrip

\* C2: prefix-freedom.  In every code table a successful construction leaves,
\* no symbol's code is a prefix of another symbol's code: cutting the longer
\* code of a pair down to the shorter one's length never gives the shorter
\* code.
C2_PrefixFree ==
    Built =>
        \A s, t \in DOMAIN encode :
            (s # t /\ LengthOf(s) <= LengthOf(t)) =>
                Shr(CodeOf(t), LengthOf(t) - LengthOf(s)) # CodeOf(s)

C2_Witness ==
    /\ pc = "ready"
    /\ WasLimited
    /\ Cardinality(DOMAIN encode) = CodeSymbols
    /\ \E s, t \in DOMAIN encode : LengthOf(s) < LengthOf(t)
    /\ C2_PrefixFree

\* C3: length-limit compliance.  When the constructor is given a limit L > 0
\* and does not throw, every symbol's code length is at most L.
C3_LengthLimit ==
    (pc = "ready" /\ limit > 0) => \A s \in DOMAIN encode : LengthOf(s) <= limit

C3_Witness ==
    /\ pc = "ready"
    /\ WasLimited
    /\ limit = CodeLimit
    /\ Cardinality(DOMAIN encode) = CodeSymbols
    /\ \E s \in DOMAIN encode : LengthOf(s) = limit
    /\ C3_LengthLimit

\* a limit L > 0 under which the n symbols of the table cannot all have a
\* code: n > 2^L
Infeasible == limit > 0 /\ Cardinality(DOMAIN frequencies) > 2 ^ limit

\* what each pass of the limiting loop makes smaller: the size of population
\* first, the count in its last entry second (no entry exceeds the number of
\* symbols)
LimitRank == Len(population) * (Len(sortedSyms) + 1) + population[Len(population)]

\* C4: infeasible-limit failure.  A constructor called with a limit L > 0 and
\* a table of more than 2^L symbols throws "Limit too small": it never
\* completes, so no code table that breaks the limit or the prefix property
\* is produced, it stays in the limiting loop until the exception, and each
\* pass of the loop that does not throw brings the loop nearer to its end.
C4_InfeasibleThrows ==
    /\ [](Infeasible =>
             /\ pc \in {"new", "merge", "limit", "thrown"}
             /\ pc = "limit" => LimitPending
             /\ encode = <<>>)
    /\ [][(Infeasible /\ pc = "limit") =>
             (pc' = "thrown" \/ LimitRank' < LimitRank)]_vars

C4_Witness ==
    /\ pc = "thrown"
    /\ Infeasible
    /\ Cardinality(DOMAIN frequencies) = CodeSymbols
    /\ limit > 1
    /\ Len(population) > limit
    /\ encode = <<>>

\* C5: canonical monotonicity.  In every constructed code table, the symbols
\* taken in the order of (code length, symbol) have strictly increasing code
\* values; symbols of one length have codes in increasing symbol order.
C5_Canonical ==
    Built =>
        \A s, t \in DOMAIN encode :
            PairLess(<<LengthOf(s), s>>, <<LengthOf(t), t>>) => CodeOf(s) < CodeOf(t)


\* C13: constructing a HuffmanCode from a table of exactly one symbol
\* completes without an access outside the length histogram and gives the
\* symbol a code length of 0 or 1.
C13_SingleSymbol ==
    Cardinality(DOMAIN frequencies) = 1 =>
        /\ pc # "oob"
        /\ pc = "ready" => \A s \in DOMAIN encode : LengthOf(s) \in {0, 1}

\* the sum over the symbols of frequency x length, for lengths len
RECURSIVE WeightedLength(_, _)
WeightedLength(len, syms) ==
    IF syms = {} THEN 0
    ELSE LET s == CHOOSE x \in syms : TRUE
         IN frequencies[s] * len[s] + WeightedLength(len, syms \ {s})

\* the sum over the symbols of 2^(deepest - length)
RECURSIVE KraftSum(_, _, _)
KraftSum(len, syms, deepest) ==
    IF syms = {} THEN 0
    ELSE LET s == CHOOSE x \in syms : TRUE
         IN 2 ^ (deepest - len[s]) + KraftSum(len, syms \ {s}, deepest)

\* the code lengths of the prefix codes for the symbols of the table: a
\* prefix code of least weight is a full tree, no deeper than n - 1 for n
\* symbols, and lengths are those of a prefix code when Kraft's sum is at
\* most 1
PrefixCodeLengths ==
    LET syms == DOMAIN frequencies
        deepest == Cardinality(syms) - 1
    IN {len \in [syms -> 1..deepest] : KraftSum(len, syms, deepest) <= 2 ^ deepest}

\* the lengths the constructor assigned
Lengths == [s \in DOMAIN encode |-> LengthOf(s)]

\* C14: with no length limit the lengths assigned to a table of two or more
\* symbols have the least total weighted length (sum of frequency x length)
\* of all prefix codes for the symbols; the table {0:20, 1:5, 2:12, 3:1, 4:8}
\* gets the lengths {0:1, 2:2, 4:3, 1:4, 3:4}.
C14_Optimal ==
    (pc = "ready" /\ limit = 0 /\ DOMAIN frequencies # {}) =>
        /\ DOMAIN encode = DOMAIN frequencies
        /\ \A len \in PrefixCodeLengths :
               WeightedLength(Lengths, DOMAIN frequencies)
                   <= WeightedLength(len, DOMAIN frequencies)
        /\ frequencies = TestTable =>
               Lengths = (0 :> 1) @@ (2 :> 2) @@ (4 :> 3) @@ (1 :> 4) @@ (3 :> 4)

C14_Witness ==
    /\ pc = "ready"
    /\ limit = 0
    /\ frequencies = TestTable
    /\ Lengths \in PrefixCodeLengths
    /\ WeightedLength(Lengths, DOMAIN frequencies) = 20 + 24 + 24 + 20 + 4

\* the codes of length k in the encode table
CodesAt(k) == {CodeOf(s) : s \in {t \in DOMAIN encode : LengthOf(t) = k}}

FirstCode(k) == CHOOSE c \in CodesAt(k) : \A d \in CodesAt(k) : c <= d

LastCode(k) == CHOOSE c \in CodesAt(k) : \A d \in CodesAt(k) : d <= c

PopulatedLengths == {LengthOf(s) : s \in DOMAIN encode}

\* C15: in every constructed code table, when lengths k and k+1 both have
\* symbols the first code of length k+1 is (last code of length k + 1) << 1,
\* and the first code of the shortest populated length is 0.
C15_StepRule ==
    Built =>
        /\ \A k \in PopulatedLengths :
               (k + 1) \in PopulatedLengths => FirstCode(k + 1) = 2 * (LastCode(k) + 1)
        /\ \A k \in PopulatedLengths :
               (\A j \in PopulatedLengths : k <= j) => FirstCode(k) = 0

C15_Witness ==
    /\ pc = "ready"
    /\ {1, 2, 3} \subseteq PopulatedLengths
    /\ FirstCode(3) = 2 * (LastCode(2) + 1)
    /\ FirstCode(3) < LastCode(3)

\* bit j (from 0) of the stream in the order the reader hands bits out
SourceBit(j) ==
    LET cell == stream[(j \div CellBits) + 1]
        k == j % CellBits
    IN IF order = MSB THEN (cell \div (2 ^ (CellBits - 1 - k))) % 2
       ELSE (cell \div (2 ^ k)) % 2

\* the k bits of the stream from bit `at` on, the first the most significant
RECURSIVE CodeRead(_, _)
CodeRead(at, k) == IF k = 0 THEN 0 ELSE 2 * CodeRead(at, k - 1) + SourceBit(at + k - 1)

\* the k bits from bit `at` on are a code of length k
Matches(at, k) == CodeRead(at, k) \in DOMAIN decode[k]

\* the longest code length that has a symbol, 0 with no symbol
MaxPopulated ==
    IF PopulatedLengths = {} THEN 0
    ELSE CHOOSE k \in PopulatedLengths : \A j \in PopulatedLengths : j <= k

\* C16: every HuffmanCode::read on a reader that does not run out of bytes
\* either returns true with the symbol of the shortest length k whose first k
\* bits are a code, having consumed exactly k bits, or, when no length up to
\* the longest populated one matches, returns false having consumed exactly
\* that many bits and leaves the caller's variable as it was.
C16_DecodeProtocol ==
    \A i \in 1..Len(decoded) :
        LET d == decoded[i]
            before == IF i = 1 THEN -1 ELSE decoded[i - 1].output
        IN ~d.fail =>
               /\ d.found =>
                      /\ d.bits \in 1..MaxPopulated
                      /\ Matches(d.at, d.bits)
                      /\ d.output = decode[d.bits][CodeRead(d.at, d.bits)]
                      /\ \A k \in 1..(d.bits - 1) : ~Matches(d.at, k)
               /\ ~d.found =>
                      /\ d.bits = MaxPopulated
                      /\ \A k \in 1..MaxPopulated : ~Matches(d.at, k)
                      /\ d.output = before

C16_Witness ==
    /\ pc = "decoding"
    /\ order = LSB
    /\ Len(decoded) = 3
    /\ ~decoded[1].found /\ decoded[1].bits = 2
    /\ decoded[2].found /\ decoded[2].bits = 1
    /\ decoded[3].found /\ decoded[3].bits = 2 /\ decoded[3].output = 1
    /\ ~decoded[3].fail

\* ================================================================== UTF-8
\* v << n in 32 bits, for 0 <= n < 32
RECURSIVE ShlBy(_, _)
ShlBy(v, n) == IF n <= CellBits THEN Shl32(v, n) ELSE ShlBy(Shl32(v, CellBits), n - CellBits)

\* a | b for two std::uint32_t
OrWide(a, b) == [hi |-> BitOr(a.hi, b.hi), lo |-> BitOr(a.lo, b.lo)]

\* BitManip::msbSet: the position of the most significant set bit, 32 for 0
msbSet(number) ==
    IF number = 0 THEN MaxBits
    ELSE CHOOSE i \in 0..(MaxBits - 2) : 2 ^ i <= number /\ number < 2 ^ (i + 1)

\* BitManip::utf8BytesLeft.  The subtraction is made in size_t and wraps
\* below zero; the comparisons made on the result come out the same for
\* every width of size_t.
utf8BytesLeft(firstByte) ==
    LET firstZero == msbSet(U8(255 - firstByte))
    IN IF firstZero = 7 THEN 0 ELSE (6 - firstZero) % SizeWrap

\* the for loop of BitManip::utf8(src, v) from index i down: [ret, v];
\* src[i] of the code is src[i + 1] here
RECURSIVE utf8Loop(_, _, _, _)
utf8Loop(src, bytes, i, v) ==
    IF i = 0
    THEN [ret |-> bytes,
          v |-> OrWide(v, ShlBy(U32(0, BitAnd(src[1], 2 ^ (7 - bytes) - 1)),
                                6 * (bytes - 1)))]
    ELSE IF BitAnd(src[i + 1], 192) # 128
    THEN [ret |-> 0, v |-> v]
    ELSE utf8Loop(src, bytes, i - 1,
                  OrWide(v, ShlBy(U32(0, BitAnd(63, src[i + 1])), 6 * (bytes - 1 - i))))

\* BitManip::utf8(src, v), the decoder: [ret, v]
utf8(src, v) ==
    LET bytes == (utf8BytesLeft(src[1]) + 1) % SizeWrap
    IN IF bytes = 1 THEN [ret |-> 1, v |-> U32(0, src[1])]
       ELSE IF bytes > UTF8_MAX_LEN THEN [ret |-> 0, v |-> v]
       ELSE utf8Loop(src, bytes, bytes - 1, U32(0, 0))

\* buffer[i + 1] = read(8), n times: [rd, buffer]
RECURSIVE readBytes(_, _, _, _, _)
readBytes(r, ord, src, n, buffer) ==
    IF n = 0 THEN [rd |-> r, buffer |-> buffer]
    ELSE readBytes(read(r, ord, src, CellBits).rd, ord, src, n - 1,
                   Append(buffer, U8(read(r, ord, src, CellBits).val.lo)))

\* BitBufferIn::readUtf8 once buffer[0] was read: [rd, val, threw].  The local
\* codepoint is handed to utf8 before it has a value, and is returned only
\* when utf8 has given it one.
readUtf8Rest(first, ord, src) ==
    LET bytesLeft == utf8BytesLeft(first.buffer[1])
    IN IF bytesLeft > 5
       THEN [rd |-> first.rd, val |-> U32(0, 0), threw |-> TRUE]
       ELSE LET all == readBytes(first.rd, ord, src, bytesLeft, first.buffer)
                success == utf8(all.buffer, U32(0, 0))
            IN IF success.ret = 0
               THEN [rd |-> all.rd, val |-> U32(0, 0), threw |-> TRUE]
               ELSE [rd |-> all.rd, val |-> success.v, threw |-> FALSE]

\* BitBufferIn::readUtf8
readUtf8(r, ord, src) == readUtf8Rest(readBytes(r, ord, src, 1, <<>>), ord, src)

\* the first bytes handed to the decoder: of each lead pattern, the
\* continuation pattern, 0xFE and 0xFF
Leads == {0, 36, 127, 128, 191, 194, 223, 226, 240, 248, 252, 253, 254, 255}

\* the bytes after the first: 10xxxxxx, 01xxxxxx and 11xxxxxx
Followers == {169, 65, 195}

\* the buffers of UTF8_MAX_LEN bytes handed to the decoder
Buffers == {<<b>> \o f : b \in Leads, f \in [1..(UTF8_MAX_LEN - 1) -> Followers]}

\* what the caller's v holds before the call
PriorV == U32(0, 65533)

\* a buffer to decode, and a reader over a stream of the same bytes
Utf8Init ==
    /\ order \in {MSB, LSB}
    /\ flushDef = 0
    /\ out = NewOut
    /\ stream \in Buffers
    /\ inp = NewIn
    /\ phase = "utf8"
    /\ hist = <<>>
    /\ rhist = <<>>
    /\ last = NoCall
    /\ pending = <<>>
    /\ HufIdle

\* BitManip::utf8(src, v) on the buffer
Utf8Decode ==
    /\ phase = "utf8"
    /\ last.op = "none"
    /\ last' = [NoCall EXCEPT !.obj = "BitManip", !.op = "utf8",
                              !.ret = utf8(stream, PriorV).ret,
                              !.val = utf8(stream, PriorV).v]
    /\ UNCHANGED <<order, flushDef, out, stream, inp, phase, hist, rhist, pending, hufVars>>

\* bin.readUtf8() on the reader
Utf8Read ==
    /\ phase = "utf8"
    /\ last.op = "none"
    /\ inp' = readUtf8(inp, order, stream).rd
    /\ last' = [NoCall EXCEPT !.obj = "in", !.op = "readUtf8",
                              !.val = readUtf8(inp, order, stream).val,
                              !.threw = readUtf8(inp, order, stream).threw]
    /\ UNCHANGED <<order, flushDef, out, stream, phase, hist, rhist, pending, hufVars>>

Utf8Next == Utf8Decode \/ Utf8Read

Utf8Spec == Utf8Init /\ [][Utf8Next]_vars

\* the number of bytes a lead byte announces: 0xxxxxxx 1, 110xxxxx 2,
\* 1110xxxx 3, 11110xxx 4, 111110xx 5, 1111110x 6; 0 for a byte that is no
\* lead (10xxxxxx, 0xFE, 0xFF)
LeadLength(b) ==
    IF b < 128 THEN 1
    ELSE IF b < 192 THEN 0
    ELSE IF b < 224 THEN 2
    ELSE IF b < 240 THEN 3
    ELSE IF b < 248 THEN 4
    ELSE IF b < 252 THEN 5
    ELSE IF b < 254 THEN 6
    ELSE 0

IsContinuation(b) == b >= 128 /\ b < 192

\* a lead byte followed by as many bytes 10xxxxxx as it announces
WellFormed(src) ==
    /\ LeadLength(src[1]) > 0
    /\ \A i \in 2..LeadLength(src[1]) : IsContinuation(src[i])

\* C17: BitManip::utf8(src, v) returns 0 on every malformed sequence (a lead
\* byte 10xxxxxx, 0xFE or 0xFF, or a byte after the lead that is not
\* 10xxxxxx) and a nonzero count, the length of the sequence, only for
\* well-formed sequences of 1 to 6 bytes.
C17_DecodeValidation ==
    last.op = "utf8" =>
        /\ ~WellFormed(stream) => last.ret = 0
        /\ last.ret # 0 => WellFormed(stream) /\ last.ret = LeadLength(stream[1])

\* the sum of the first n entries of a sequence of numbers
RECURSIVE SumTo(_, _)
SumTo(seq, n) == IF n = 0 THEN 0 ELSE seq[n] + SumTo(seq, n - 1)

\* Kraft's sum of a population vector, scaled by 2^size: entry i counts codes
\* of length i
RECURSIVE KraftOf(_, _)
KraftOf(pop, n) == IF n = 0 THEN 0 ELSE pop[n] * 2 ^ (Len(pop) - n) + KraftOf(pop, n - 1)

\* C18: while the limiting loop runs and after each of its passes, no entry of
\* population is negative, the entries add up to the number of symbols and
\* Kraft's sum over them is exactly 1; a pass that subtracts 2 from the last
\* entry finds at least 2 there.
C18_LimiterInvariant ==
    /\ []((pc \in {"limit", "thrown"} /\ limit > 0) =>
             /\ \A i \in 1..Len(population) : population[i] >= 0
             /\ SumTo(population, Len(population)) = Len(sortedSyms)
             /\ KraftOf(population, Len(population)) = 2 ^ Len(population))
    /\ [][(pc = "limit" /\ LimitPending /\ population' # population
              /\ Len(population') = Len(population)) =>
             /\ population[Len(population)] >= 2
             /\ population'[Len(population)] = population[Len(population)] - 2]_vars

\* the loop has moved leaves up and ended within the limit
C18_Witness ==
    /\ pc = "limit"
    /\ WasLimited
    /\ ~LimitPending
    /\ limit = CodeLimit
    /\ Len(sortedSyms) = CodeSymbols
    /\ Len(population) = limit
    /\ SumTo(population, Len(population)) = CodeSymbols
    /\ KraftOf(population, Len(population)) = 2 ^ limit

\* a limit L > 0 and a table of n symbols with 2 <= n <= 2^L
Feasible ==
    /\ limit > 0
    /\ Cardinality(DOMAIN frequencies) >= 2
    /\ Cardinality(DOMAIN frequencies) <= 2 ^ limit

\* C19: a constructor called with a limit L > 0 and 2 <= n <= 2^L symbols
\* never throws; each pass of its limiting loop brings the loop nearer to its
\* end (the rank is a natural number and gets smaller), and once the loop has
\* ended the constructor returns with a code for every symbol.  "Limit too
\* small" is thrown only for n > 2^L.
C19_FeasibleSucceeds ==
    /\ [](Feasible => pc \in {"new", "merge", "limit", "ready"})
    /\ [](pc = "thrown" => Infeasible)
    /\ [][(Feasible /\ pc = "limit" /\ LimitPending) =>
             (pc' = "limit" /\ LimitRank' < LimitRank /\ LimitRank' >= 0)]_vars
    /\ [][(Feasible /\ pc = "limit" /\ ~LimitPending) =>
             (pc' = "ready" /\ DOMAIN encode' = DOMAIN frequencies)]_vars

\* the limiting loop had leaves to move up, as many symbols as the limit
\* allows, and the constructor has returned
C19_Witness ==
    /\ pc = "ready"
    /\ Feasible
    /\ WasLimited
    /\ limit = 2
    /\ Cardinality(DOMAIN frequencies) = 4
    /\ DOMAIN encode = DOMAIN frequencies

\* C20: in every constructed table, with or without a limit, a symbol of
\* strictly greater frequency has a code no longer than that of a symbol of
\* smaller frequency; the lengths are handed out along the symbols sorted by
\* (length in the tree, symbol), so that a symbol the tree held no deeper than
\* another gets a code no longer than the other's.
C20_FrequencyMonotone ==
    pc = "ready" =>
        /\ \A s, t \in DOMAIN frequencies :
               frequencies[s] > frequencies[t] => LengthOf(s) <= LengthOf(t)
        /\ \A i, j \in 1..Len(sortedSyms) :
               sortedSyms[i][1] < sortedSyms[j][1] =>
                   LengthOf(sortedSyms[i][2]) <= LengthOf(sortedSyms[j][2])
        /\ \A i, j \in 1..Len(sortedSyms) :
               i < j => LengthOf(sortedSyms[i][2]) <= LengthOf(sortedSyms[j][2])

====
